---- MODULE Spec2Model ----
(***************************************************************************)
(* searxstats/model.py: the aggregate store SearxStatisticsResult, the     *)
(* probe adapter Fetcher and the fetch-and-merge factory create_fetch.     *)
(*                                                                         *)
(* A Python dict is modelled as the sequence of its <<key, value>> items   *)
(* in insertion order (the order dict.items() iterates in); an Instance    *)
(* Record (a dict of probe fields) as a function from its field names.     *)
(*                                                                         *)
(* SpecStore drives the store's methods, Spec the passes of the probes     *)
(* built with create_fetch, SpecFetcher the tasks and the cache of         *)
(* Fetcher. The helpers model.py imports from searxstats.common (for_each, *)
(* dict_update, create_task, print_exception_wrapper, erase_by_name,       *)
(* get_network_type) follow their documented behaviour.                    *)
(***************************************************************************)
EXTENDS Naturals, Sequences, FiniteSets, TLC

VARIABLES
    searx_stats_result, \* the SearxStatisticsResult object (its nine slots)
    call,               \* the last store method called, its arguments and result
    pc,                 \* "idle" or "fetch": whether a create_fetch pass is running
    current,            \* the running pass: probe, limit, iterator position
    in_flight,          \* url -> number of started, unfinished invocations
    attempts,           \* url -> number of invocations started in this pass
    failed,             \* urls whose invocation raised in this pass
    at_start,           \* the store's instances when the running pass began
    done,               \* the completed passes, in order
    cache,              \* the memoize cache: namespace -> set of entries
    task,               \* the last task created by a Fetcher and its outcome
    erased              \* the last erase_memoize: fetcher, cache before and after it

storeVars == <<searx_stats_result, call>>
passVars == <<pc, current, in_flight, attempts, failed, at_start, done>>
fetcherVars == <<cache, task, erased>>
vars == <<searx_stats_result, call, pc, current, in_flight, attempts, failed,
          at_start, done, cache, task, erased>>

(***************************************************************************)
(* Values                                                                  *)
(***************************************************************************)
\* Python's None (JSON null); no string of the model equals it.
None == "None"

\* The instance URLs of the model, and the network type of each.
Urls == {"u1", "u2", "u3"}

NetworkType == {"NORMAL", "TOR"}

get_network_type(url) == IF url = "u3" THEN "TOR" ELSE "NORMAL"

\* The largest limit a probe is built with.
MaxLimit == 2

\* No pass of the model starts more invocations than this for one url.
MaxAttempts == 2

\* The empty dict.
EmptyDict == << >>

(***************************************************************************)
(* dict operations, on a sequence of <<key, value>> items                  *)
(***************************************************************************)
dict_keys(d) == [i \in 1..Len(d) |-> d[i][1]]

dict_has(d, k) == \E i \in 1..Len(d) : d[i][1] = k

dict_index(d, k) == CHOOSE i \in 1..Len(d) : d[i][1] = k

dict_get(d, k) == d[dict_index(d, k)][2]

\* d[k] = v: an existing key keeps its position, a new key goes last.
dict_set(d, k, v) ==
    IF dict_has(d, k)
    THEN [d EXCEPT ![dict_index(d, k)] = <<k, v>>]
    ELSE Append(d, <<k, v>>)

\* detail.update(other): every field of other overwrites, shallowly.
record_update(detail, other) == other @@ detail

(***************************************************************************)
(* SearxStatisticsResult                                                   *)
(***************************************************************************)
\* __init__(private)
SearxStatisticsResult_init(private) ==
    [ metadata      |-> [timestamp |-> "now", ips |-> EmptyDict],
      instances     |-> << >>,
      engines       |-> EmptyDict,
      engine_errors |-> << >>,
      categories    |-> << >>,
      hashes        |-> << >>,
      cidrs         |-> EmptyDict,
      forks         |-> << "https://github.com/searx/searx" >>,
      private       |-> private ]

\* _is_valid_instance taking a null version for a version.
_is_valid_instance_accepting_null(detail) ==
    "version" \in DOMAIN detail /\ "error" \notin DOMAIN detail

_is_valid_instance(detail) ==
    /\ (IF "version" \in DOMAIN detail THEN detail["version"] ELSE None) # None
    /\ "error" \notin DOMAIN detail

\* The network_type argument: one NetworkType member, or a collection of
\* members (the default is the whole Enum).
NetworkTypeArgs ==
    [kind : {"member"}, value : NetworkType]
        \cup [kind : {"collection"}, value : {NetworkType, {"TOR"}}]

DefaultNetworkType == [kind |-> "collection", value |-> NetworkType]

\* Lines 47-48: a single member becomes a one-element list.
normalize_network_type(network_type) ==
    IF network_type.kind = "member" THEN {network_type.value} ELSE network_type.value

\* iter_yields with the private flag forgotten in the second filter.
iter_yields_ignoring_private(self, instance, detail, only_valid, valid_or_private, network_type) ==
    LET is_valid == _is_valid_instance(detail) IN
    IF only_valid /\ ~is_valid THEN FALSE
    ELSE IF valid_or_private /\ ~is_valid THEN FALSE
    ELSE IF get_network_type(instance) \notin normalize_network_type(network_type)
         THEN FALSE
    ELSE TRUE

\* iter_yields with the private flag read the wrong way round.
iter_yields_private_inverted(self, instance, detail, only_valid, valid_or_private, network_type) ==
    LET is_valid == _is_valid_instance(detail) IN
    IF only_valid /\ ~is_valid THEN FALSE
    ELSE IF valid_or_private /\ self.private /\ ~is_valid THEN FALSE
    ELSE IF get_network_type(instance) \notin normalize_network_type(network_type)
         THEN FALSE
    ELSE TRUE

\* The body of iter_instances' loop for one item: TRUE when it is yielded,
\* FALSE when one of the three `continue`s skips it.
iter_yields(self, instance, detail, only_valid, valid_or_private, network_type) ==
    LET is_valid == _is_valid_instance(detail) IN
    IF only_valid /\ ~is_valid THEN FALSE
    ELSE IF valid_or_private /\ ~self.private /\ ~is_valid THEN FALSE
    ELSE IF get_network_type(instance) \notin normalize_network_type(network_type)
         THEN FALSE
    ELSE TRUE

\* iter_next resuming one item too far.
iter_next_skipping_one(self, pos, only_valid, valid_or_private, network_type) ==
    LET hits == { i \in (pos + 2)..Len(self.instances) :
                    iter_yields(self, self.instances[i][1], self.instances[i][2],
                                only_valid, valid_or_private, network_type) }
    IN IF hits = {} THEN 0 ELSE CHOOSE i \in hits : \A j \in hits : i <= j

\* iter_next restarting the loop at the first item on every call.
iter_next_restarting(self, pos, only_valid, valid_or_private, network_type) ==
    LET hits == { i \in 1..Len(self.instances) :
                    iter_yields(self, self.instances[i][1], self.instances[i][2],
                                only_valid, valid_or_private, network_type) }
    IN IF hits = {} THEN 0 ELSE CHOOSE i \in hits : \A j \in hits : i <= j

\* One next() on the generator, whose loop stands after item `pos`: the
\* index of the next item it yields, evaluated on the store as it is now, or
\* 0 when the loop runs off the end (StopIteration).
iter_next(self, pos, only_valid, valid_or_private, network_type) ==
    LET hits == { i \in (pos + 1)..Len(self.instances) :
                    iter_yields(self, self.instances[i][1], self.instances[i][2],
                                only_valid, valid_or_private, network_type) }
    IN IF hits = {} THEN 0 ELSE CHOOSE i \in hits : \A j \in hits : i <= j

\* The generator run to exhaustion with nothing interleaved: list(iter_instances(...)).
RECURSIVE iter_from(_, _, _, _, _)
iter_from(self, pos, only_valid, valid_or_private, network_type) ==
    LET i == iter_next(self, pos, only_valid, valid_or_private, network_type) IN
    IF i = 0 THEN << >>
    ELSE << self.instances[i] >>
            \o iter_from(self, i, only_valid, valid_or_private, network_type)

iter_instances(self, only_valid, valid_or_private, network_type) ==
    iter_from(self, 0, only_valid, valid_or_private, network_type)

create_instance(self, url, detail) ==
    [self EXCEPT !.instances = dict_set(self.instances, url, detail)]

\* update_instance assigning the record instead of merging into it.
update_instance_replacing(self, url, detail) ==
    [self EXCEPT !.instances = dict_set(self.instances, url, detail)]

update_instance(self, url, detail) ==
    IF dict_has(self.instances, url)
    THEN [self EXCEPT !.instances =
            dict_set(self.instances, url,
                     record_update(dict_get(self.instances, url), detail))]
    ELSE [self EXCEPT !.instances = dict_set(self.instances, url, detail)]

\* write: the structure handed to json.dump (no `private`).
write(self) ==
    [ metadata      |-> self.metadata,
      instances     |-> self.instances,
      engines       |-> self.engines,
      engine_errors |-> self.engine_errors,
      categories    |-> self.categories,
      hashes        |-> self.hashes,
      cidrs         |-> self.cidrs,
      forks         |-> self.forks ]

(***************************************************************************)
(* The store's methods as steps                                            *)
(***************************************************************************)
\* The records a caller creates an instance with.
CreateDetails ==
    { EmptyDict,
      [version |-> "1.0"],
      [error |-> "timeout"],
      [version |-> None] }

\* The partial records a caller updates an instance with.
UpdateDetails ==
    { [version |-> "1.0"],
      [error |-> "timeout"],
      [version |-> None, error |-> "timeout"] }

NoCall == [op |-> "none"]

CreateInstance ==
    \E url \in Urls, detail \in CreateDetails :
        /\ searx_stats_result' = create_instance(searx_stats_result, url, detail)
        /\ call' = [op |-> "create_instance", url |-> url, detail |-> detail,
                    pre |-> searx_stats_result]

UpdateInstance ==
    \E url \in Urls, detail \in UpdateDetails :
        /\ searx_stats_result' = update_instance(searx_stats_result, url, detail)
        /\ call' = [op |-> "update_instance", url |-> url, detail |-> detail,
                    pre |-> searx_stats_result]

IterInstances ==
    \E only_valid \in BOOLEAN, valid_or_private \in BOOLEAN,
       network_type \in NetworkTypeArgs :
        /\ call' = [op |-> "iter_instances", only_valid |-> only_valid,
                    valid_or_private |-> valid_or_private,
                    network_type |-> network_type,
                    result |-> iter_instances(searx_stats_result, only_valid,
                                              valid_or_private, network_type)]
        /\ UNCHANGED searx_stats_result

Write ==
    /\ call' = [op |-> "write", result |-> write(searx_stats_result)]
    /\ UNCHANGED searx_stats_result

(***************************************************************************)
(* Specification of the store alone                                        *)
(***************************************************************************)
InitStore ==
    /\ \E private \in BOOLEAN :
          searx_stats_result = SearxStatisticsResult_init(private)
    /\ call = NoCall
    /\ pc = "idle"
    /\ current = [probe |-> "none"]
    /\ in_flight = [u \in Urls |-> 0]
    /\ attempts = [u \in Urls |-> 0]
    /\ failed = {}
    /\ at_start = << >>
    /\ done = << >>
    /\ cache = << >>
    /\ task = [kind |-> "none"]
    /\ erased = [fetcher |-> "none"]

NextStore ==
    \/ CreateInstance /\ UNCHANGED <<passVars, fetcherVars>>
    \/ UpdateInstance /\ UNCHANGED <<passVars, fetcherVars>>
    \/ IterInstances /\ UNCHANGED <<passVars, fetcherVars>>
    \/ Write /\ UNCHANGED <<passVars, fetcherVars>>

SpecStore == InitStore /\ [][NextStore]_vars

(***************************************************************************)
(* create_fetch: the probes built with it, and one pass of fetch           *)
(***************************************************************************)
\* The two probes of the run, each built by create_fetch(keys, fetch_one,
\* limit=...) with the default filters.
RegisteredProbes == <<"probeVersion", "probeHash">>

\* create_fetch's keys argument.
keys_of(probe) ==
    IF probe = "probeVersion" THEN <<"version">> ELSE <<"hashes", "sha256">>

\* What the probe's fetch_one returns when it does not raise.
fetch_one_result(probe) == IF probe = "probeVersion" THEN "2.0" ELSE "abc"

\* inspect.iscoroutinefunction(fetch_one): probeVersion awaits the network,
\* probeHash is a plain function.
iscoroutinefunction(probe) == probe = "probeVersion"

\* What one call of fetch_one does: return its result, or raise.
Outcomes == {"return", "raise"}

\* common.utils.dict_update(dictionary, keys, value): value goes to the
\* nested keys path, the dicts on the way are created when missing and
\* otherwise kept with their other keys.
RECURSIVE dict_update(_, _, _)
dict_update(dictionary, keys, value) ==
    IF Len(keys) = 1
    THEN (keys[1] :> value) @@ dictionary
    ELSE LET sub == IF keys[1] \in DOMAIN dictionary
                    THEN dictionary[keys[1]] ELSE EmptyDict
         IN (keys[1] :> dict_update(sub, Tail(keys), value)) @@ dictionary

\* The exception object a failing fetch_one raises (json.dump cannot encode it).
RaisedException == "Exception()"

\* fetch_and_set with the exception written into the record as the result.
fetch_and_set_writing_failure(detail, keys, outcome, result) ==
    IF outcome = "raise" THEN dict_update(detail, keys, RaisedException)
    ELSE dict_update(detail, keys, result)

\* fetch_and_set_async / fetch_and_set_function on the record `detail`: the
\* record afterwards. When fetch_one raises, line 128 / 132 is never reached.
fetch_and_set(detail, keys, outcome, result) ==
    IF outcome = "raise" THEN detail
    ELSE dict_update(detail, keys, result)

\* fetch built with only_valid=True for a default.
fetch_only_valid(probe, limit) ==
    [ probe            |-> probe,
      fetch_and_set    |-> IF iscoroutinefunction(probe)
                           THEN "fetch_and_set_async"
                           ELSE "fetch_and_set_function",
      only_valid       |-> TRUE,
      valid_or_private |-> TRUE,
      network_type     |-> DefaultNetworkType,
      limit            |-> limit,
      pos              |-> 0,
      exhausted        |-> FALSE ]

\* The fetch closure, up to the call of for_each: the state of the pass, with
\* the generator of iter_instances created and not yet advanced.
fetch(probe, limit) ==
    [ probe            |-> probe,
      fetch_and_set    |-> IF iscoroutinefunction(probe)
                           THEN "fetch_and_set_async"
                           ELSE "fetch_and_set_function",
      only_valid       |-> FALSE,
      valid_or_private |-> TRUE,
      network_type     |-> DefaultNetworkType,
      limit            |-> limit,
      pos              |-> 0,
      exhausted        |-> FALSE ]

NoPass == [probe |-> "none"]

RECURSIVE SumOver(_, _)
SumOver(f, S) ==
    IF S = {} THEN 0
    ELSE LET x == CHOOSE y \in S : TRUE IN f[x] + SumOver(f, S \ {x})

\* The invocations started and not finished.
InFlight == SumOver(in_flight, Urls)

\* for_each starts another invocation when a slot is free and the iterator
\* has not raised StopIteration.
for_each_may_start(limit, running, exhausted) == running < limit /\ ~exhausted

\* for_each returns when the iterator is exhausted and nothing is in flight.
for_each_is_over(running, exhausted) == running = 0 /\ exhausted

\* The record of url in the store after its invocation ended with outcome.
store_after(self, url, probe, outcome) ==
    [self EXCEPT !.instances =
        dict_set(self.instances, url,
                 fetch_and_set(dict_get(self.instances, url), keys_of(probe),
                               outcome, fetch_one_result(probe)))]

\* The records instances are discovered with: pending, valid, in error.
DiscoveredDetails ==
    { EmptyDict,
      [version |-> "1.0"],
      [error |-> "timeout"] }

\* The instances are discovered, each url once, before the first probe runs.
Discover ==
    \E url \in Urls, detail \in DiscoveredDetails :
        /\ pc = "idle" /\ done = << >>
        /\ ~dict_has(searx_stats_result.instances, url)
        /\ searx_stats_result' = create_instance(searx_stats_result, url, detail)
        /\ UNCHANGED <<call, pc, current, in_flight, attempts, failed, at_start, done>>

\* The orchestrator awaits the fetch of each registered probe in turn, one
\* pass after the other.
StartPass ==
    \E limit \in 1..MaxLimit :
        /\ pc = "idle"
        /\ Len(done) < Len(RegisteredProbes)
        /\ pc' = "fetch"
        /\ current' = fetch(RegisteredProbes[Len(done) + 1], limit)
        /\ in_flight' = [u \in Urls |-> 0]
        /\ attempts' = [u \in Urls |-> 0]
        /\ failed' = {}
        /\ at_start' = searx_stats_result.instances
        /\ call' = NoCall
        /\ UNCHANGED <<searx_stats_result, done>>

\* for_each takes the next item from the iterator. StopIteration ends the
\* consumption; otherwise fetch_and_set(url, detail) starts: a coroutine
\* suspends in fetch_one, a plain function runs to its end at once.
StartNext ==
    /\ pc = "fetch"
    /\ for_each_may_start(current.limit, InFlight, current.exhausted)
    /\ \A u \in Urls : attempts[u] <= MaxAttempts
    /\ LET i == iter_next(searx_stats_result, current.pos, current.only_valid,
                          current.valid_or_private, current.network_type)
       IN IF i = 0
          THEN /\ current' = [current EXCEPT !.exhausted = TRUE]
               /\ UNCHANGED <<searx_stats_result, in_flight, attempts, failed>>
          ELSE LET url == searx_stats_result.instances[i][1] IN
               /\ attempts' = [attempts EXCEPT ![url] = @ + 1]
               /\ current' = [current EXCEPT !.pos = i]
               /\ IF current.fetch_and_set = "fetch_and_set_async"
                  THEN /\ in_flight' = [in_flight EXCEPT ![url] = @ + 1]
                       /\ UNCHANGED <<searx_stats_result, failed>>
                  ELSE \E outcome \in Outcomes :
                       /\ searx_stats_result' =
                            store_after(searx_stats_result, url, current.probe, outcome)
                       /\ failed' = IF outcome = "raise"
                                    THEN failed \cup {url} ELSE failed
                       /\ UNCHANGED in_flight
    /\ UNCHANGED <<call, pc, at_start, done>>

\* An awaited fetch_one returns or raises: fetch_and_set_async ends, and
\* for_each keeps the failure to itself.
Finish ==
    \E url \in Urls, outcome \in Outcomes :
        /\ pc = "fetch"
        /\ in_flight[url] > 0
        /\ in_flight' = [in_flight EXCEPT ![url] = @ - 1]
        /\ searx_stats_result' =
              store_after(searx_stats_result, url, current.probe, outcome)
        /\ failed' = IF outcome = "raise" THEN failed \cup {url} ELSE failed
        /\ UNCHANGED <<call, pc, current, attempts, at_start, done>>

\* for_each returns, and with it fetch.
CompletePass ==
    /\ pc = "fetch"
    /\ for_each_is_over(InFlight, current.exhausted)
    /\ pc' = "idle"
    /\ done' = Append(done, [pass |-> current, attempts |-> attempts,
                             failed |-> failed, start |-> at_start,
                             end |-> searx_stats_result.instances])
    /\ current' = NoPass
    /\ UNCHANGED <<searx_stats_result, call, in_flight, attempts, failed, at_start>>

\* The report is written between passes or after them.
WriteReport ==
    /\ pc = "idle"
    /\ Write
    /\ UNCHANGED <<pc, current, in_flight, attempts, failed, at_start, done>>

Init == InitStore

Next ==
    \/ Discover /\ UNCHANGED fetcherVars
    \/ StartPass /\ UNCHANGED fetcherVars
    \/ StartNext /\ UNCHANGED fetcherVars
    \/ Finish /\ UNCHANGED fetcherVars
    \/ CompletePass /\ UNCHANGED fetcherVars
    \/ WriteReport /\ UNCHANGED fetcherVars

Spec == Init /\ [][Next]_vars

(***************************************************************************)
(* Fetcher                                                                 *)
(***************************************************************************)
\* The probe modules, by __name__; one Fetcher wraps each.
FetchModules == {"searxstats.fetcher.a", "searxstats.fetcher.b", "searxstats.fetcher.c"}

\* Fetcher.name, the human-readable name of the Fetcher of a module.
fetcher_name(fetch_module) ==
    IF fetch_module = "searxstats.fetcher.a" THEN "a"
    ELSE IF fetch_module = "searxstats.fetcher.b" THEN "b" ELSE "c"

\* What a module holds under an attribute name: a function (def or async
\* def), some other object, or nothing. Module a has both entry points, b
\* has fetch alone, c has no function at all.
module_attribute(fetch_module, name) ==
    IF fetch_module = "searxstats.fetcher.a" THEN "function"
    ELSE IF fetch_module = "searxstats.fetcher.b"
         THEN (IF name = "fetch" THEN "function" ELSE "absent")
    ELSE (IF name = "fetch" THEN "absent" ELSE "other")

\* get_function's None.
NoFunction == [kind |-> "None"]

get_function(fetch_module, name) ==
    IF module_attribute(fetch_module, name) # "absent"
    THEN IF module_attribute(fetch_module, name) = "function"
         THEN [kind |-> "function", module |-> fetch_module, name |-> name]
         ELSE NoFunction
    ELSE NoFunction

\* common.utils.print_exception_wrapper(f): f with every exception raised
\* while running it caught and logged.
print_exception_wrapper(f) == [kind |-> "wrapper", wrapped |-> f]

\* common.utils.create_task(loop, executor, callable, *args): the task that
\* runs the callable; what the callable raises, the task raises to whoever
\* awaits it.
create_task(callable) == [callable |-> callable, state |-> "pending"]

\* create_fetch_task with fetch handed to create_task as it is.
create_fetch_task_unwrapped(fetch_module) ==
    create_task(get_function(fetch_module, "fetch"))

create_fetch_task(fetch_module) ==
    LET fetch_function == get_function(fetch_module, "fetch")
        safe_fetch == print_exception_wrapper(fetch_function)
    IN create_task(safe_fetch)

\* The coroutine of `async def dummy(): pass`.
Dummy == [callable |-> [kind |-> "dummy"], state |-> "pending"]

create_initialize_task(fetch_module) ==
    LET initialize == get_function(fetch_module, "initialize") IN
    IF initialize # NoFunction THEN create_task(initialize) ELSE Dummy

\* Calling a callable, a module function behaving as `outcome` says: calling
\* None raises TypeError, the wrapper swallows what its function raises.
RECURSIVE call_result(_, _)
call_result(callable, outcome) ==
    IF callable.kind = "None" THEN "raise"
    ELSE IF callable.kind = "dummy" THEN "return"
    ELSE IF callable.kind = "wrapper"
         THEN (IF call_result(callable.wrapped, outcome) = "raise"
               THEN "caught" ELSE "return")
    ELSE outcome

\* The module function a callable ends up running, if any.
RECURSIVE function_run(_)
function_run(callable) ==
    IF callable.kind = "wrapper" THEN function_run(callable.wrapped) ELSE callable

\* The memoized results a probe function may store: its cache keys.
CacheKeys == {"k1"}

\* common.memoize: a memoized call made in a module stores its result in the
\* namespace of that module.
memoize(entries, name, key) ==
    (name :> ((IF name \in DOMAIN entries THEN entries[name] ELSE {}) \cup {key}))
        @@ entries

\* common.memoize.erase_by_name(name): the namespace goes, the others stay;
\* a name with no namespace changes nothing.
erase_by_name(entries, name) == [n \in DOMAIN entries \ {name} |-> entries[n]]

\* erase_memoize erasing by the Fetcher's own name.
erase_memoize_by_fetcher_name(entries, fetch_module) ==
    erase_by_name(entries, fetcher_name(fetch_module))

erase_memoize(entries, fetch_module) == erase_by_name(entries, fetch_module)

CreateFetchTask ==
    \E fetch_module \in FetchModules :
        /\ task' = [kind |-> "fetch", fetcher |-> fetch_module,
                    task |-> create_fetch_task(fetch_module), before |-> cache]
        /\ UNCHANGED <<cache, erased>>

CreateInitializeTask ==
    \E fetch_module \in FetchModules :
        /\ task' = [kind |-> "initialize", fetcher |-> fetch_module,
                    task |-> create_initialize_task(fetch_module), before |-> cache]
        /\ UNCHANGED <<cache, erased>>

\* The orchestrator awaits the task: its callable runs. A module function
\* that returns may have memoized a result on the way; one that raises ends
\* the task as "raised" unless a wrapper caught it.
AwaitTask ==
    \E outcome \in Outcomes, memoizes \in BOOLEAN, key \in CacheKeys :
        /\ task.kind # "none"
        /\ task.task.state = "pending"
        /\ LET callable == task.task.callable
               result == call_result(callable, outcome)
               run == function_run(callable)
           IN /\ task' = [task EXCEPT
                            !.task.state = IF result = "raise" THEN "raised"
                                           ELSE "completed",
                            !.before = cache]
              /\ cache' = IF run.kind = "function" /\ outcome = "return" /\ memoizes
                          THEN memoize(cache, run.module, key)
                          ELSE cache
        /\ UNCHANGED erased

\* A memoized function of a probe module is called.
CachedCall ==
    \E fetch_module \in FetchModules, key \in CacheKeys :
        /\ cache' = memoize(cache, fetch_module, key)
        /\ UNCHANGED <<task, erased>>

EraseMemoize ==
    \E fetch_module \in FetchModules :
        /\ cache' = erase_memoize(cache, fetch_module)
        /\ erased' = [fetcher |-> fetch_module, before |-> cache,
                      after |-> erase_memoize(cache, fetch_module)]
        /\ UNCHANGED task

NextFetcher ==
    \/ CreateFetchTask /\ UNCHANGED <<storeVars, passVars>>
    \/ CreateInitializeTask /\ UNCHANGED <<storeVars, passVars>>
    \/ AwaitTask /\ UNCHANGED <<storeVars, passVars>>
    \/ CachedCall /\ UNCHANGED <<storeVars, passVars>>
    \/ EraseMemoize /\ UNCHANGED <<storeVars, passVars>>

SpecFetcher == InitStore /\ [][NextFetcher]_vars

(***************************************************************************)
(* Claims about the store                                                  *)
(***************************************************************************)
\* A record has a version: the field is there and is not null (line 44
\* reads a null version as no version).
HasVersion(detail) == "version" \in DOMAIN detail /\ detail["version"] # None

Valid(detail) == HasVersion(detail) /\ "error" \notin DOMAIN detail

\* The three filters of iter_instances, composed with AND.
Passes(private, item, only_valid, valid_or_private, types) ==
    /\ only_valid => Valid(item[2])
    /\ (valid_or_private /\ ~private) => Valid(item[2])
    /\ get_network_type(item[1]) \in types

NoDuplicates(s) == \A i, j \in 1..Len(s) : s[i] = s[j] => i = j

ExampleInstances ==
    << <<"u1", [version |-> "1.0"]>>, <<"u2", [error |-> "timeout"]>>,
       <<"u3", EmptyDict>> >>

\* C5: iter_instances yields, in insertion order and each URL at most once,
\* exactly the (url, record) pairs that pass all three filters; on the store
\* {u1: {version: '1.0'}, u2: {error: 'timeout'}, u3: {}} only_valid=true
\* yields [u1], and only_valid=false, valid_or_private=true yields [u1] on a
\* non-private store and [u1, u2, u3] on a private one.
C5_IterInstancesFilters ==
    call.op = "iter_instances" =>
        LET self == searx_stats_result
            types == IF call.network_type.kind = "member"
                     THEN {call.network_type.value}
                     ELSE call.network_type.value
            Keep(item) == Passes(self.private, item, call.only_valid,
                                 call.valid_or_private, types)
            urls == dict_keys(call.result)
        IN  /\ call.result = SelectSeq(self.instances, Keep)
            /\ NoDuplicates(urls)
            /\ (self.instances = ExampleInstances
                    /\ call.network_type = DefaultNetworkType) =>
                  /\ call.only_valid => urls = <<"u1">>
                  /\ (~call.only_valid /\ call.valid_or_private /\ ~self.private)
                        => urls = <<"u1">>
                  /\ (~call.only_valid /\ call.valid_or_private /\ self.private)
                        => urls = <<"u1", "u2", "u3">>

\* The private store of the example, iterated with valid_or_private alone,
\* has yielded all three instances.
C5_Witness ==
    /\ call.op = "iter_instances"
    /\ searx_stats_result.instances = ExampleInstances
    /\ searx_stats_result.private
    /\ ~call.only_valid /\ call.valid_or_private
    /\ call.network_type = DefaultNetworkType
    /\ dict_keys(call.result) = <<"u1", "u2", "u3">>

\* C7: update_instance(url, partial) merges partial's fields over the
\* record of a known url (the other fields keep their values) and makes
\* partial the record of an unseen url; every other record, the relative
\* order of the urls already there and every other field of the store are
\* unchanged.
C7_UpdateInstanceFrame ==
    call.op = "update_instance" =>
        LET pre == call.pre
            post == searx_stats_result
            url == call.url
            partial == call.detail
            now == dict_get(post.instances, url)
            InPre(u) == dict_has(pre.instances, u)
        IN  /\ dict_has(post.instances, url)
            /\ dict_has(pre.instances, url) =>
                  LET old == dict_get(pre.instances, url) IN
                  /\ DOMAIN now = DOMAIN old \cup DOMAIN partial
                  /\ \A k \in DOMAIN partial : now[k] = partial[k]
                  /\ \A k \in DOMAIN old \ DOMAIN partial : now[k] = old[k]
            /\ ~dict_has(pre.instances, url) => now = partial
            /\ \A u \in Urls \ {url} :
                  /\ dict_has(post.instances, u) <=> dict_has(pre.instances, u)
                  /\ dict_has(pre.instances, u) =>
                        dict_get(post.instances, u) = dict_get(pre.instances, u)
            /\ NoDuplicates(dict_keys(post.instances))
            /\ SelectSeq(dict_keys(post.instances), InPre) = dict_keys(pre.instances)
            /\ \A f \in DOMAIN pre \ {"instances"} : post[f] = pre[f]
            /\ DOMAIN post = DOMAIN pre

\* An update has merged into a record that had a field the partial lacks,
\* in a store holding other instances too.
C7_Witness ==
    /\ call.op = "update_instance"
    /\ dict_has(call.pre.instances, call.url)
    /\ DOMAIN dict_get(call.pre.instances, call.url) \ DOMAIN call.detail # {}
    /\ Len(call.pre.instances) = 3
    /\ call.pre.instances[2][1] = call.url

\* An update has inserted an unseen url after the instances already there.
C7_WitnessUnseen ==
    /\ call.op = "update_instance"
    /\ ~dict_has(call.pre.instances, call.url)
    /\ Len(call.pre.instances) = 2

(***************************************************************************)
(* Claims about a pass of fetch                                            *)
(***************************************************************************)
\* The filtered instance sequence of a pass: the items of the store, as it
\* was when the pass began, that pass the three filters.
Filtered(start, pass) ==
    LET Keep(item) == Passes(searx_stats_result.private, item, pass.only_valid,
                             pass.valid_or_private,
                             normalize_network_type(pass.network_type))
    IN SelectSeq(start, Keep)

UrlsOf(items) == { items[i][1] : i \in 1..Len(items) }

Attempted(count) == { u \in Urls : count[u] > 0 }

\* C1: in a pass with 1 <= limit <= M, M the length of the filtered instance
\* sequence, never more than limit invocations are in flight, and when the
\* pass has completed every one of the M elements was attempted exactly
\* once, whichever invocations failed.
C1_BoundedConcurrency ==
    /\ (pc = "fetch" /\ current.limit <= Len(Filtered(at_start, current)))
          => InFlight <= current.limit
    /\ \A i \in 1..Len(done) :
          LET elements == Filtered(done[i].start, done[i].pass) IN
          (1 <= done[i].pass.limit /\ done[i].pass.limit <= Len(elements))
             => \A k \in 1..Len(elements) : done[i].attempts[elements[k][1]] = 1

\* A pass over three elements with limit 2 has completed with one invocation
\* failed and the others not.
C1_Witness ==
    /\ Len(done) >= 1
    /\ done[1].pass.limit = 2
    /\ Len(Filtered(done[1].start, done[1].pass)) = 3
    /\ Cardinality(done[1].failed) = 1

\* C6: the invocations in flight in a pass have pairwise distinct urls.
C6_DistinctInFlight ==
    pc = "fetch" => \A u \in Urls : in_flight[u] <= 1

\* Two invocations are in flight at once.
C6_Witness ==
    /\ pc = "fetch"
    /\ InFlight = 2
    /\ in_flight["u1"] = 1 /\ in_flight["u3"] = 1

\* C10: the instances attempted in a pass are those that passed the filter
\* in the store as it was when the pass began, although the iterator is
\* evaluated while earlier invocations write; and the pass never adds,
\* removes or reorders the urls of the store.
C10_AttemptedIsFilterAtStart ==
    /\ pc = "fetch" =>
          /\ dict_keys(searx_stats_result.instances) = dict_keys(at_start)
          /\ Attempted(attempts) \subseteq UrlsOf(Filtered(at_start, current))
          /\ current.exhausted =>
                Attempted(attempts) = UrlsOf(Filtered(at_start, current))
    /\ \A i \in 1..Len(done) :
          /\ Attempted(done[i].attempts)
                = UrlsOf(Filtered(done[i].start, done[i].pass))
          /\ dict_keys(done[i].end) = dict_keys(done[i].start)

\* The iterator was exhausted after an earlier invocation of the pass had
\* already written into the store, and an instance was filtered out.
C10_Witness ==
    /\ pc = "fetch"
    /\ current.exhausted
    /\ searx_stats_result.instances # at_start
    /\ Cardinality(Attempted(attempts)) = 2
    /\ Len(at_start) = 3

\* Whether the nested keys path is there in a record, and what is at it.
RECURSIVE HasPath(_, _)
HasPath(detail, keys) ==
    /\ keys[1] \in DOMAIN detail
    /\ Len(keys) > 1 => HasPath(detail[keys[1]], Tail(keys))

RECURSIVE AtPath(_, _)
AtPath(detail, keys) ==
    IF Len(keys) = 1 THEN detail[keys[1]] ELSE AtPath(detail[keys[1]], Tail(keys))

\* What json.dump encodes: the strings of the probes and null, in dicts.
JsonLeaves == {"1.0", "2.0", "timeout", "abc", None}

JsonRecord(detail) ==
    \A k \in DOMAIN detail :
        IF k = "hashes"
        THEN \A h \in DOMAIN detail[k] : detail[k][h] \in JsonLeaves
        ELSE detail[k] \in JsonLeaves

Serializable(self) ==
    LET report == write(self) IN
    \A i \in 1..Len(report.instances) : JsonRecord(report.instances[i][2])

\* The record of url is as `before` has it, at the keys path and elsewhere.
LeftAlone(before, after, keys) ==
    /\ HasPath(after, keys) <=> HasPath(before, keys)
    /\ HasPath(before, keys) => AtPath(after, keys) = AtPath(before, keys)
    /\ DOMAIN after = DOMAIN before
    /\ \A k \in DOMAIN before \ {keys[1]} : after[k] = before[k]

\* C8: when fetch_one fails for an instance, the field at the keys path of
\* its record stays absent or keeps its previous value, every other field
\* is unchanged, and the store can still be written.
C8_FailureLeavesRecord ==
    /\ pc = "fetch" =>
          /\ \A u \in failed :
                LeftAlone(dict_get(at_start, u),
                          dict_get(searx_stats_result.instances, u),
                          keys_of(current.probe))
          /\ failed # {} => Serializable(searx_stats_result)
    /\ \A i \in 1..Len(done) : \A u \in done[i].failed :
          LeftAlone(dict_get(done[i].start, u), dict_get(done[i].end, u),
                    keys_of(done[i].pass.probe))
    /\ (pc = "idle" /\ \E i \in 1..Len(done) : done[i].failed # {})
          => Serializable(searx_stats_result)

\* probeVersion failed for an instance that had a version, which is still
\* the old one, while another instance got the new one.
C8_Witness ==
    /\ pc = "fetch"
    /\ current.probe = "probeVersion"
    /\ \E u \in failed :
          /\ HasPath(dict_get(at_start, u), <<"version">>)
          /\ dict_get(searx_stats_result.instances, u)["version"] = "1.0"
    /\ \E i \in 1..Len(at_start) :
          /\ at_start[i][1] \notin failed
          /\ HasPath(searx_stats_result.instances[i][2], <<"version">>)
          /\ searx_stats_result.instances[i][2]["version"] = "2.0"

\* The report was written after a pass in which an invocation failed.
C8_WitnessAbsent ==
    /\ call.op = "write"
    /\ Len(done) = 2
    /\ \E u \in done[2].failed : ~HasPath(dict_get(call.result.instances, u),
                                          <<"hashes", "sha256">>)

\* The end-to-end run: three instances, probeVersion then probeHash, both
\* with limit 2, both passes over.
EndToEnd ==
    /\ pc = "idle"
    /\ Len(done) = 2
    /\ done[1].pass.probe = "probeVersion" /\ done[1].pass.limit = 2
    /\ done[2].pass.probe = "probeHash" /\ done[2].pass.limit = 2
    /\ Len(done[1].start) = 3

\* C2 as stated: after both passes every record has a version field and a
\* hashes.sha256 field, except that of an instance whose probeVersion
\* invocation failed, which has hashes.sha256 only. (No probeHash invocation
\* failing is taken for granted.)
C2_AsStated ==
    (EndToEnd /\ done[2].failed = {}) =>
        \A i \in 1..Len(searx_stats_result.instances) :
            LET url == searx_stats_result.instances[i][1]
                detail == searx_stats_result.instances[i][2]
            IN /\ HasPath(detail, <<"hashes", "sha256">>)
               /\ HasPath(detail, <<"version">>) <=> url \notin done[1].failed

\* C2, amended: on a private store whose three records have no version and
\* no hashes field beforehand, after both passes a record has a version
\* field exactly when its probeVersion invocation did not fail and a
\* hashes.sha256 field exactly when its probeHash invocation did not fail;
\* a running pass can always go on to its end, and the store can be written.
C2_EndToEndPrivate ==
    /\ (EndToEnd /\ searx_stats_result.private
          /\ \A i \in 1..3 : DOMAIN done[1].start[i][2] \cap {"version", "hashes"} = {})
        => /\ \A i \in 1..Len(searx_stats_result.instances) :
                LET url == searx_stats_result.instances[i][1]
                    detail == searx_stats_result.instances[i][2]
                IN /\ HasPath(detail, <<"hashes", "sha256">>)
                        <=> url \notin done[2].failed
                   /\ HasPath(detail, <<"version">>) <=> url \notin done[1].failed
           /\ Serializable(searx_stats_result)
    /\ pc = "fetch" => ENABLED (StartNext \/ Finish \/ CompletePass)

\* The end-to-end run on a private store of three empty records is over,
\* probeVersion having failed for one instance and for no other.
C2_Witness ==
    /\ EndToEnd /\ searx_stats_result.private
    /\ \A i \in 1..3 : done[1].start[i][2] = EmptyDict
    /\ done[1].failed = {"u2"}
    /\ done[2].failed = {}
    /\ \A i \in 1..3 : HasPath(searx_stats_result.instances[i][2], <<"hashes", "sha256">>)

(***************************************************************************)
(* Claims about Fetcher                                                    *)
(***************************************************************************)
\* C3: the task of create_fetch_task never fails: whatever is raised while
\* the probe's fetch runs, also when the module has no fetch function, is
\* caught inside the task, and awaiting it raises nothing.
C3_FetchTaskNeverRaises ==
    (task.kind = "fetch" /\ task.task.state # "pending")
        => task.task.state = "completed"

\* The fetch task of the module without a fetch function has been awaited,
\* and has completed.
C3_Witness ==
    /\ task.kind = "fetch"
    /\ get_function(task.fetcher, "fetch") = NoFunction
    /\ task.task.state = "completed"

\* C4 as stated: what initialize raises does not reach whoever awaits the
\* task of create_initialize_task, and without an initialize function the
\* task completes and changes no state.
C4_InitializeTaskNeverRaises ==
    (task.kind = "initialize" /\ task.task.state # "pending")
        => /\ task.task.state = "completed"
           /\ get_function(task.fetcher, "initialize") = NoFunction
                 => cache = task.before

\* C9: erase_memoize of a Fetcher removes the namespace of its module and
\* nothing else: every other namespace is what it was, and erasing when the
\* module has no entries leaves the cache as it was.
C9_EraseOnlyOwnNamespace ==
    erased.fetcher # "none" =>
        /\ erased.fetcher \notin DOMAIN erased.after
        /\ DOMAIN erased.after = DOMAIN erased.before \ {erased.fetcher}
        /\ \A n \in DOMAIN erased.before \ {erased.fetcher} :
              erased.after[n] = erased.before[n]
        /\ erased.fetcher \notin DOMAIN erased.before
              => erased.after = erased.before

\* A Fetcher's entries were erased while the two other modules had entries.
C9_Witness ==
    /\ erased.fetcher = "searxstats.fetcher.a"
    /\ DOMAIN erased.before = FetchModules
    /\ DOMAIN erased.after = FetchModules \ {"searxstats.fetcher.a"}

\* A Fetcher with no entries was erased while another module had entries.
C9_WitnessNoEntries ==
    /\ erased.fetcher = "searxstats.fetcher.a"
    /\ DOMAIN erased.before = {"searxstats.fetcher.b"}
    /\ erased.after = erased.before

====
